---------------------------- MODULE Spec2Model ----------------------------
(***************************************************************************)
(* rtags: the Daemon's translation-unit cache (src/Daemon.cpp) and the     *)
(* per-query ClangThread with its include audit (src/src/ClangThread.cpp). *)
(*                                                                         *)
(* SpecDaemon : the Daemon's commands interleaved with the parse thread's  *)
(*              job completions.                                           *)
(* SpecRun    : one ClangThread::run, cursor by cursor, with abort() from  *)
(*              the connection's thread.                                   *)
(* SpecAudit  : the end of a run with DumpCheckIncludes, from every        *)
(*              dependency graph a walk can leave behind.                  *)
(***************************************************************************)
EXTENDS Integers, Sequences, FiniteSets, TLC

(***************************************************************************)
(* Bounds of the model.                                                    *)
(***************************************************************************)
\* number of non-null translation-unit handles the parse thread can deliver
MaxHandles == 2
\* number of jobs that can be pending in the parse thread's queue
MaxJobs == 2
\* number of cursors the front end hands to the visitor in one run
MaxCursors == 3
\* depth of the walk: calls of clang_visitChildren and recursions inside them
MaxDepth == 2
\* length of the longest path of a file a cursor is found in
MaxPathLen == 29
\* number of include edges and of referenced files in the graphs SpecAudit starts from
MaxIncludes == 3
MaxRefs == 1

VARIABLES
    mTranslationUnits,  \* Daemon::mTranslationUnits : QHash<Path, CXTranslationUnit>
    disposed,           \* handle -> number of clang_disposeTranslationUnit calls on it
    nextHandle,         \* number of non-null handles produced so far
    jobs,               \* ParseThread's pending jobs, FIFO
    visitFiles,         \* VisitThread's set of files (what files() returns)
    parsedOk,           \* paths whose `add` parse completed with a non-null TU
    reply,              \* what the last command returned
    crashed,            \* the daemon process has died
    parseThread,        \* mParseThread: running, aborted (asked to stop), finished
    visitThread,        \* mVisitThread: running, quitting (asked to stop), finished
    mainThread,         \* the daemon's thread: in its event loop, in wait(), exited
    exitTimer,          \* a QTimer::singleShot for QCoreApplication::quit is pending
    quitSent,           \* a `quitting` reply has been pushed to the client
    query,              \* ClangThread::mQueryMessage: its flags and type
    pc,                 \* where ClangThread::run is
    mAborted,           \* ClangThread::mAborted
    runUnit,            \* run()'s translationUnit: parsed or null
    stack,              \* the walk: the calls of clang_visitChildren in progress
    mIndentLevel,       \* ClangThread::mIndentLevel
    returned,           \* what the visitor's last callback returned
    visited,            \* number of visitor callbacks so far
    mDependencies,      \* ClangThread::mDependencies : Hash<uint32_t, Dep*>
    nNodes,             \* number of `new Dep` so far
    released,           \* Dep node -> number of `delete` on it
    mCursorsByUsr,      \* ClangThread::mCursorsByUsr: the usrs recorded
    disposals,          \* how often run() disposed of its translation unit and its index
    posted              \* what the run has posted to the main event loop, in order

quitVars == <<parseThread, visitThread, mainThread, exitTimer, quitSent>>
daemonVars == <<mTranslationUnits, disposed, nextHandle, jobs, visitFiles, parsedOk,
                reply, crashed, quitVars>>
threadVars == <<query, pc, mAborted, runUnit, stack, mIndentLevel, returned, visited,
                mDependencies, nNodes, released, mCursorsByUsr, disposals, posted>>
vars == <<daemonVars, threadVars>>

(***************************************************************************)
(* Paths are byte strings; the file system holds two files.                *)
(***************************************************************************)
PathA  == <<"/", "a">>
PathAB == <<"/", "a", "b">>
\* the files that exist, under their resolved names
Files == {PathA, PathAB}
\* names a client may pass: resolved names, a relative name, a missing file, nothing
RelA    == <<"a">>
Missing == <<"/", "x">>
Names == Files \cup {RelA, Missing, <<>>}

\* Path::resolve(): the canonical name of an existing file; <<>> when there is none
Resolve(name) ==
    IF name \in Files THEN name
    ELSE IF name = RelA THEN PathA
    ELSE <<>>

\* Path::isResolved(): the name is already canonical
IsResolved(name) == name \in Files

\* Path::isFile(): the name, taken relative to the daemon's directory, is a file
IsFile(name) == Resolve(name) # << >>

\* the null CXTranslationUnit (the `load` sentinel)
NullTU == 0
Handles == 1..MaxHandles

(***************************************************************************)
(* contains(): substring and regular-expression search (Daemon.cpp 184-192, *)
(* 286-287).                                                                *)
(***************************************************************************)
\* QByteArray::contains(QByteArray): b occurs in key
ContainsBytes(key, b) ==
    \E i \in 1..(Len(key) - Len(b) + 1) :
        \A k \in 1..Len(b) : key[i + k - 1] = b[k]

\* QRegExp: the pattern language modelled is literals, ".", a leading "^",
\* a trailing "$"; "(" stands for a pattern that does not compile.
RxValid(rx) == \A k \in 1..Len(rx) : rx[k] # "("
RxAnchoredStart(rx) == Len(rx) > 0 /\ rx[1] = "^"
RxAnchoredEnd(rx) == Len(rx) > 0 /\ rx[Len(rx)] = "$"
RxBody(rx) ==
    LET from == IF RxAnchoredStart(rx) THEN 2 ELSE 1
        to   == IF RxAnchoredEnd(rx) THEN Len(rx) - 1 ELSE Len(rx)
    IN  [k \in 1..(to - from + 1) |-> rx[from + k - 1]]

RxMatchAt(rx, s, i) ==
    LET body == RxBody(rx)
    IN  /\ i + Len(body) - 1 <= Len(s)
        /\ \A k \in 1..Len(body) : body[k] = "." \/ body[k] = s[i + k - 1]
        /\ RxAnchoredEnd(rx) => i + Len(body) - 1 = Len(s)

\* QString::contains(QRegExp): the pattern matches somewhere in s
ContainsRx(s, rx) ==
    \E i \in 1..(Len(s) + 1) :
        /\ RxAnchoredStart(rx) => i = 1
        /\ RxMatchAt(rx, s, i)

\* the test of removeSourceFile's loop
KeyMatches(key, regexp, arg) ==
    \/ regexp /\ ContainsRx(key, arg)
    \/ ~regexp /\ ContainsBytes(key, arg)

\* free arguments a client may pass to `remove`
Args == { <<"a">>, <<"b">>, <<"x">>, <<"a", "$">>, <<"^", "/", "a">>, <<".">>, <<"(">>, <<>> }
FreeArgLists == {<<>>} \cup { <<a>> : a \in Args } \cup { <<(<<"a">>), (<<"b">>)>> }

(***************************************************************************)
(* Helpers on the cache.                                                   *)
(***************************************************************************)
Cached == DOMAIN mTranslationUnits

\* clang_disposeTranslationUnit(tu): a no-op on the null TU
Dispose(d, tu) == IF tu = NullTU THEN d ELSE [d EXCEPT ![tu] = @ + 1]

\* QHash::erase
Erase(tus, key) == [p \in (DOMAIN tus) \ {key} |-> tus[p]]

\* QHash::operator[] assignment
Insert(tus, key, tu) == [p \in (DOMAIN tus) \cup {key} |-> IF p = key THEN tu ELSE tus[p]]

Reply(cmd, arg, result, list) == [cmd |-> cmd, arg |-> arg, result |-> result, list |-> list]

Job(kind, path, args) == [kind |-> kind, path |-> path, args |-> args]

\* GccArguments(): no compiler arguments
GccArguments == << >>

\* no command has been answered yet, or the last answer has been sent
NoReply == Reply("none", << >>, "none", << >>)

\* the daemon's thread is in its event loop: it runs one handler at a time
Idle == ~crashed /\ reply = NoReply /\ mainThread = "loop"


\* every order in which a QHash may enumerate the key set S
Orders(S) ==
    { o \in [1..Cardinality(S) -> S] : \A i, j \in 1..Cardinality(S) : o[i] = o[j] => i = j }

(***************************************************************************)
(* Daemon::Daemon: the parse thread's fileParsed and invalidated signals   *)
(* are connected to the visit thread only; the caches start empty.         *)
(***************************************************************************)
DaemonInit ==
    /\ mTranslationUnits = << >>
    /\ disposed = [h \in Handles |-> 0]
    /\ nextHandle = 0
    /\ jobs = << >>
    /\ visitFiles = {}
    /\ parsedOk = {}
    /\ reply = NoReply
    /\ crashed = FALSE
    /\ parseThread = "running"
    /\ visitThread = "running"
    /\ mainThread = "loop"
    /\ exitTimer = FALSE
    /\ quitSent = FALSE

(***************************************************************************)
(* Daemon::addSourceFile                                                   *)
(***************************************************************************)
\* ParseThread::addFile: a file that has been parsed is invalidated first; a
\* path with a queued parse job only gets the newer arguments
AddFileJobs(q, path, args) ==
    IF \E i \in 1..Len(q) : q[i].kind = "parse" /\ q[i].path = path
    THEN [i \in 1..Len(q) |-> IF q[i].kind = "parse" /\ q[i].path = path
                               THEN Job("parse", path, args) ELSE q[i]]
    ELSE Append(q, Job("parse", path, args))

\* an addSourceFile that does not look at what resolve() returns
AddSourceFileIgnoresResolve(file) ==
    /\ Idle
    /\ IF file = << >>
       THEN /\ reply' = Reply("add", file, "No file to add", << >>)
            /\ UNCHANGED <<jobs, visitFiles, parsedOk>>
       ELSE /\ Len(jobs) < MaxJobs
            /\ jobs' = Append(jobs, Job("parse", file, GccArguments))
            /\ reply' = Reply("add", file, "File added", << >>)
            /\ UNCHANGED <<visitFiles, parsedOk>>
    /\ UNCHANGED <<mTranslationUnits, disposed, nextHandle, crashed, quitVars>>

AddSourceFile(file) ==
    /\ Idle
    /\ IF file = << >>
       THEN /\ reply' = Reply("add", file, "No file to add", << >>)
            /\ UNCHANGED <<jobs, visitFiles, parsedOk>>
       ELSE IF Resolve(file) = << >>
       THEN /\ reply' = Reply("add", file, "Doesn't exist", << >>)
            /\ UNCHANGED <<jobs, visitFiles, parsedOk>>
       ELSE /\ Len(AddFileJobs(jobs, Resolve(file), GccArguments)) <= MaxJobs
            /\ jobs' = AddFileJobs(jobs, Resolve(file), GccArguments)
            /\ visitFiles' = visitFiles \ {Resolve(file)}
            /\ parsedOk' = parsedOk \ {Resolve(file)}
            /\ reply' = Reply("add", file, "File added", << >>)
    /\ UNCHANGED <<mTranslationUnits, disposed, nextHandle, crashed, quitVars>>

(***************************************************************************)
(* Daemon::removeSourceFile                                                *)
(***************************************************************************)
\* it.key() read after `it = mTranslationUnits.erase(it)`: the key of the entry
\* that follows the erased one, or whatever end() yields when there is none
KeyAfterErase(order, i, endKey) == IF i < Len(order) THEN order[i + 1] ELSE endKey

\* a loop that steps the iterator once more after erase(): it skips the entry
\* that follows an erased one
RECURSIVE RemoveLoopSkipsNext(_, _, _, _, _, _, _, _)
RemoveLoopSkipsNext(order, i, regexp, arg, endKey, tus, d, removed) ==
    IF i > Len(order)
    THEN [tus |-> tus, disposed |-> d, removed |-> removed]
    ELSE IF KeyMatches(order[i], regexp, arg)
    THEN RemoveLoopSkipsNext(order, i + 2, regexp, arg, endKey,
                             Erase(tus, order[i]), Dispose(d, tus[order[i]]),
                             Append(removed, KeyAfterErase(order, i, endKey)))
    ELSE RemoveLoopSkipsNext(order, i + 1, regexp, arg, endKey, tus, d, removed)

\* the while loop over mTranslationUnits, entries enumerated in `order`
RECURSIVE RemoveLoop(_, _, _, _, _, _, _, _)
RemoveLoop(order, i, regexp, arg, endKey, tus, d, removed) ==
    IF i > Len(order)
    THEN [tus |-> tus, disposed |-> d, removed |-> removed]
    ELSE IF KeyMatches(order[i], regexp, arg)
    THEN RemoveLoop(order, i + 1, regexp, arg, endKey,
                    Erase(tus, order[i]), Dispose(d, tus[order[i]]),
                    Append(removed, KeyAfterErase(order, i, endKey)))
    ELSE RemoveLoop(order, i + 1, regexp, arg, endKey, tus, d, removed)

\* what reading end().key() can yield: any bytes at all
Garbage == <<"?">>
EndKeys == Files \cup {Garbage}

\* the loop dereferenced end(): the last entry enumerated was erased
ReadsEnd(order, regexp, arg) ==
    Len(order) > 0 /\ KeyMatches(order[Len(order)], regexp, arg)

\* Reading end().key() is undefined: the read yields some bytes (a path or
\* garbage) or the process dies on it.
EndValues(order, regexp, arg) == IF ReadsEnd(order, regexp, arg) THEN EndKeys ELSE {Garbage}

RemoveSourceFile(regexp, freeArgs) ==
    /\ Idle
    /\ IF Len(freeArgs) # 1 \/ freeArgs[1] = << >>
       THEN /\ reply' = Reply("remove", << >>, "Invalid arguments", << >>)
            /\ UNCHANGED <<mTranslationUnits, disposed, crashed>>
       ELSE IF regexp /\ ~RxValid(freeArgs[1])
       THEN /\ reply' = Reply("remove", freeArgs[1], "Bad regexp", << >>)
            /\ UNCHANGED <<mTranslationUnits, disposed, crashed>>
       ELSE \E order \in Orders(Cached) :
            \E endKey \in EndValues(order, regexp, freeArgs[1]) :
            \E segv \in (IF endKey = Garbage THEN {FALSE, ReadsEnd(order, regexp, freeArgs[1])}
                                             ELSE {FALSE}) :
              LET r == RemoveLoop(order, 1, regexp, freeArgs[1], endKey,
                                  mTranslationUnits, disposed, << >>)
              IN  /\ mTranslationUnits' = r.tus
                  /\ disposed' = r.disposed
                  /\ crashed' = segv
                  /\ reply' = IF segv THEN reply
                              ELSE IF r.removed = << >>
                              THEN Reply("remove", freeArgs[1], "No matches", << >>)
                              ELSE Reply("remove", freeArgs[1], "Removed", r.removed)
    /\ UNCHANGED <<nextHandle, jobs, visitFiles, parsedOk, quitVars>>

(***************************************************************************)
(* Daemon::load and Daemon::onFileParsed                                   *)
(***************************************************************************)
\* `if (!filename.isResolved()) filename.resolve();`
LoadName(name) ==
    IF ~IsResolved(name) /\ Resolve(name) # << >> THEN Resolve(name) ELSE name

Load(freeArgs) ==
    LET filename == LoadName(IF Len(freeArgs) > 0 THEN freeArgs[1] ELSE << >>)
    IN  /\ Idle
        /\ IF ~IsFile(filename)
           THEN /\ reply' = Reply("load", filename, "No filename specified", << >>)
                /\ UNCHANGED <<mTranslationUnits, disposed, jobs>>
           ELSE IF filename \in Cached /\ mTranslationUnits[filename] = NullTU
           THEN /\ reply' = Reply("load", filename, "File already loading", << >>)
                /\ UNCHANGED <<mTranslationUnits, disposed, jobs>>
           ELSE /\ Len(jobs) < MaxJobs
                /\ disposed' = IF filename \in Cached
                               THEN Dispose(disposed, mTranslationUnits[filename])
                               ELSE disposed
                /\ mTranslationUnits' = Insert(mTranslationUnits, filename, NullTU)
                /\ jobs' = Append(jobs, Job("load", filename, << >>))
                /\ reply' = Reply("load", filename, "Loading", << >>)
        /\ UNCHANGED <<nextHandle, visitFiles, parsedOk, crashed, quitVars>>

\* an onFileParsed that overwrites the entry without releasing what it held
ReleasesNothing(tus, path) == NullTU

\* the handle onFileParsed releases before it stores the new one
ReleasedByOnFileParsed(tus, path) == IF path \in DOMAIN tus THEN tus[path] ELSE NullTU

OnFileParsed(path, translationUnit) ==
    /\ disposed' = Dispose(disposed, ReleasedByOnFileParsed(mTranslationUnits, path))
    /\ mTranslationUnits' = Insert(mTranslationUnits, path, translationUnit)

(***************************************************************************)
(* The parse thread completes the job at the head of its queue.  A parse   *)
(* job (from `add`) emits fileParsed, which only the visit thread hears; a *)
(* load job invokes the callback it was given, Daemon::onFileParsed.       *)
(***************************************************************************)
ParseCompleted(ok) ==
    /\ ~crashed
    /\ parseThread = "running"
    /\ jobs # << >>
    /\ jobs[1].kind = "parse"
    /\ jobs' = Tail(jobs)
    /\ visitFiles' = visitFiles \cup {jobs[1].path}
    /\ parsedOk' = IF ok THEN parsedOk \cup {jobs[1].path} ELSE parsedOk \ {jobs[1].path}
    /\ UNCHANGED <<mTranslationUnits, disposed, nextHandle, reply, crashed, quitVars>>

LoadCompleted(ok) ==
    /\ Idle
    /\ parseThread = "running"
    /\ jobs # << >>
    /\ jobs[1].kind = "load"
    /\ jobs' = Tail(jobs)
    /\ IF ok
       THEN /\ nextHandle < MaxHandles
            /\ nextHandle' = nextHandle + 1
            /\ OnFileParsed(jobs[1].path, nextHandle + 1)
       ELSE /\ nextHandle' = nextHandle
            /\ OnFileParsed(jobs[1].path, NullTU)
    /\ UNCHANGED <<visitFiles, parsedOk, reply, crashed, quitVars>>

(***************************************************************************)
(* Daemon::lookupLine                                                      *)
(***************************************************************************)
\* `if (file.isResolved()) file.resolve();`
LookupName(name) == IF IsResolved(name) /\ Resolve(name) # << >> THEN Resolve(name) ELSE name

\* QHash::value(key): the null TU when the key is absent
Value(tus, key) == IF key \in DOMAIN tus THEN tus[key] ELSE NullTU

\* what the front end finds at the location: no cursor, a cursor that refers to
\* nothing, or a cursor with a referenced cursor
FrontEndAnswers == {"Unable to get cursor for location", "No referenced cursor", "Symbol (decl) at"}

LookupLineResultSkipsNullTest(hasArgs, file, line, column, frontEnd) ==
    IF ~hasArgs THEN "Invalid argument count"
    ELSE IF ~IsFile(LookupName(file)) \/ line = 0 \/ column = 0 THEN "Invalid argument type"
    ELSE IF LookupName(file) \notin DOMAIN mTranslationUnits THEN "Translation unit not found"
    ELSE frontEnd
\* the answer of lookupLine: the checks before the front end is asked, then
\* what the front end finds
LookupLineResult(hasArgs, file, line, column, frontEnd) ==
    IF ~hasArgs THEN "Invalid argument count"
    ELSE IF ~IsFile(LookupName(file)) \/ line = 0 \/ column = 0 THEN "Invalid argument type"
    ELSE IF Value(mTranslationUnits, LookupName(file)) = NullTU THEN "Translation unit not found"
    ELSE frontEnd

\* where the referenced cursor is: clang_getInstantiationLocation and
\* clang_getFileName
Target(path, line, column) == [path |-> path, line |-> line, column |-> column]
LongPath == [i \in 1..MaxPathLen |-> IF i = 1 THEN "/" ELSE "d"]
Targets == { Target(PathA, 1, 5), Target(LongPath, 12, 3) }

\* printf's %u
DigitChars == <<"0", "1", "2", "3", "4", "5", "6", "7", "8", "9">>
RECURSIVE Decimal(_)
Decimal(n) ==
    IF n < 10 THEN <<DigitChars[n + 1]>>
    ELSE Decimal(n \div 10) \o <<DigitChars[(n % 10) + 1]>>

\* "Symbol (decl) at %s, line %u column %u", character by character
SymbolPrefix ==
    <<"S", "y", "m", "b", "o", "l", " ", "(", "d", "e", "c", "l", ")", " ", "a", "t", " ">>
LineInfix == <<",", " ", "l", "i", "n", "e", " ">>
ColumnInfix == <<" ", "c", "o", "l", "u", "m", "n", " ">>
SymbolText(target) ==
    SymbolPrefix \o target.path \o LineInfix \o Decimal(target.line)
        \o ColumnInfix \o Decimal(target.column)

\* the size snprintf is given for `char ret[64]`
SnprintfSize == 63

\* snprintf(ret, size, ...): at most size - 1 characters and the terminator
Snprintf(size, text) == SubSeq(text, 1, IF Len(text) < size - 1 THEN Len(text) ELSE size - 1)

\* the reply's list holds the characters of the text a successful lookup returns
LookupLine(req, frontEnd, target) ==
    /\ Idle
    /\ LET result == LookupLineResult(req.hasArgs, req.file, req.line, req.column, frontEnd)
       IN  reply' = Reply("lookupline", req.file, result,
                          IF result = "Symbol (decl) at"
                          THEN Snprintf(SnprintfSize, SymbolText(target)) ELSE << >>)
    /\ UNCHANGED <<mTranslationUnits, disposed, nextHandle, jobs, visitFiles, parsedOk, crashed,
                   quitVars>>

\* the lookupline requests clients send
LookupRequest(hasArgs, file, line, column) ==
    [hasArgs |-> hasArgs, file |-> file, line |-> line, column |-> column]
LookupRequests ==
    { LookupRequest(TRUE, f, 1, 5) : f \in Names \ {<< >>} }
        \cup { LookupRequest(FALSE, PathA, 1, 5), LookupRequest(TRUE, PathA, 0, 5),
               LookupRequest(TRUE, PathA, 1, 0) }

(***************************************************************************)
(* Daemon::fileList                                                        *)
(***************************************************************************)
\* matches(files, t)
Matches(files, regexp, pattern) ==
    { path \in files : IF regexp THEN RxValid(pattern) /\ ContainsRx(path, pattern)
                                 ELSE ContainsBytes(path, pattern) }

FileListOut(rxArg, matchArg) ==
    LET pattern == IF rxArg # << >> THEN rxArg ELSE matchArg
        regexp == rxArg # << >>
    IN  IF pattern = << >> THEN visitFiles ELSE Matches(visitFiles, regexp, pattern)

FileList(rxArg, matchArg) ==
    /\ Idle
    /\ \E out \in Orders(FileListOut(rxArg, matchArg)) :
          reply' = Reply("files", IF rxArg # << >> THEN rxArg ELSE matchArg, "files", out)
    /\ UNCHANGED <<mTranslationUnits, disposed, nextHandle, jobs, visitFiles, parsedOk, crashed,
                   quitVars>>

(***************************************************************************)
(* Daemon::ebusDataReady: the result of runCommand is pushed to the client *)
(* and the handler returns to the event loop.                              *)
(***************************************************************************)
EbusSend ==
    /\ ~crashed
    /\ mainThread = "loop"
    /\ reply # NoReply
    /\ reply' = NoReply
    /\ quitSent' = (quitSent \/ reply.result = "quitting")
    /\ UNCHANGED <<mTranslationUnits, disposed, nextHandle, jobs, visitFiles, parsedOk, crashed,
                   parseThread, visitThread, mainThread, exitTimer>>

(***************************************************************************)
(* Daemon::runCommand, `quit`: both threads are asked to stop, the handler *)
(* waits for them, arms the timer that ends the application, and answers.  *)
(***************************************************************************)
\* a wait() that returns whether or not the thread has finished
WaitReturnsAtOnce(thread) == TRUE

\* QThread::wait() returns
WaitReturns(thread) == thread = "finished"

\* mParseThread.abort(); mVisitThread.quit(); the handler enters wait().
\* ParseThread::abort cancels the jobs that are pending
QuitBegin ==
    /\ Idle
    /\ parseThread' = IF parseThread = "running" THEN "aborted" ELSE parseThread
    /\ jobs' = << >>
    /\ visitThread' = IF visitThread = "running" THEN "quitting" ELSE visitThread
    /\ mainThread' = "waiting"
    /\ UNCHANGED <<mTranslationUnits, disposed, nextHandle, visitFiles, parsedOk, reply,
                   crashed, exitTimer, quitSent>>

\* the parse thread leaves its loop
ParseThreadExits ==
    /\ ~crashed
    /\ parseThread = "aborted"
    /\ parseThread' = "finished"
    /\ UNCHANGED <<mTranslationUnits, disposed, nextHandle, jobs, visitFiles, parsedOk, reply,
                   crashed, visitThread, mainThread, exitTimer, quitSent>>

\* the visit thread leaves its event loop
VisitThreadExits ==
    /\ ~crashed
    /\ visitThread = "quitting"
    /\ visitThread' = "finished"
    /\ UNCHANGED <<mTranslationUnits, disposed, nextHandle, jobs, visitFiles, parsedOk, reply,
                   crashed, parseThread, mainThread, exitTimer, quitSent>>

\* both wait() calls have returned: QTimer::singleShot(100, app, quit) and
\* createResultMap("quitting")
QuitEnd ==
    /\ ~crashed
    /\ mainThread = "waiting"
    /\ WaitReturns(parseThread)
    /\ WaitReturns(visitThread)
    /\ exitTimer' = TRUE
    /\ reply' = Reply("quit", << >>, "quitting", << >>)
    /\ mainThread' = "loop"
    /\ UNCHANGED <<mTranslationUnits, disposed, nextHandle, jobs, visitFiles, parsedOk,
                   crashed, parseThread, visitThread, quitSent>>

\* the timer fires in the event loop: QCoreApplication::quit()
ExitTimerFires ==
    /\ Idle
    /\ exitTimer
    /\ exitTimer' = FALSE
    /\ mainThread' = "exited"
    /\ UNCHANGED <<mTranslationUnits, disposed, nextHandle, jobs, visitFiles, parsedOk, reply,
                   crashed, parseThread, visitThread, quitSent>>

(***************************************************************************)
(* The daemon: commands from clients interleaved with job completions.     *)
(***************************************************************************)
DaemonCommand ==
    \/ \E file \in Names : AddSourceFile(file)
    \/ \E regexp \in BOOLEAN, freeArgs \in FreeArgLists : RemoveSourceFile(regexp, freeArgs)
    \/ \E freeArgs \in {<<>>} \cup { <<n>> : n \in Names } : Load(freeArgs)
    \/ \E ok \in BOOLEAN : ParseCompleted(ok)
    \/ \E ok \in BOOLEAN : LoadCompleted(ok)
    \/ \E req \in LookupRequests, frontEnd \in FrontEndAnswers, target \in Targets :
          LookupLine(req, frontEnd, target)
    \/ \E rxArg \in {<<>>, <<"a", "$">>}, matchArg \in {<<>>, <<"b">>} : FileList(rxArg, matchArg)
    \/ EbusSend
    \/ QuitBegin
    \/ ParseThreadExits
    \/ VisitThreadExits
    \/ QuitEnd
    \/ ExitTimerFires

(***************************************************************************)
(* ClangThread: files, locations, cursors.                                 *)
(***************************************************************************)
\* the files of the translation unit, by the ids Location::insertFile gives them
FileIds == {1, 2, 3, 4}

\* mSource.fileId: the file the query names
SourceFileId == 1

\* Location::path(fileId); paths are sequences of components, the "_" that
\* starts the name of a synthetic header being one of its own
PathOfId(id) ==
    CASE id = 1 -> <<"src", "a.cpp">>
      [] id = 2 -> <<"src", "a.h">>
      [] id = 3 -> <<"usr", "include", "x.h">>
      [] OTHER  -> <<"usr", "include", "sys", "_types", "_", "x.h">>

\* String::startsWith
StartsWith(path, prefix) ==
    /\ Len(prefix) <= Len(path)
    /\ \A k \in 1..Len(prefix) : path[k] = prefix[k]

\* Path::isSystem
IsSystem(path) == StartsWith(path, <<"usr">>)

\* the synthetic headers checkIncludes() passes over
ExemptPrefixes ==
    { <<"usr", "include", "sys", "_types", "_">>, <<"usr", "include", "_types", "_">> }
IsExempt(path) == \E prefix \in ExemptPrefixes : StartsWith(path, prefix)

Loc(file, line) == [file |-> file, line |-> line]
NullLocation == Loc(0, 0)
\* Location::isNull
IsNull(loc) == loc.file = 0

\* QueryMessage: the DumpCheckIncludes flag, the type VisitAST, the
\* DumpIncludeHeaders flag
Query(checkIncludes, visitAST, includeHeaders) ==
    [checkIncludes |-> checkIncludes, visitAST |-> visitAST, includeHeaders |-> includeHeaders]
Queries == { Query(c, v, h) : c \in BOOLEAN, v \in BOOLEAN, h \in BOOLEAN }

\* what clang_getCursorReferenced gives: the cursor itself, the null cursor, or
\* another cursor, of which the kind, the location and the USR matter
Ref(kind, loc, usr) == [kind |-> kind, loc |-> loc, usr |-> usr]
SelfRef == Ref("self", NullLocation, "")
NullRef == Ref("null", NullLocation, "")

\* a cursor as the visitor sees it: its location, whether it is an inclusion
\* directive and of which file (0: clang_getIncludedFile gives none), its
\* referenced cursor, its USR
Cursor(loc, kind, included, ref, usr) ==
    [loc |-> loc, kind |-> kind, included |-> included, ref |-> ref, usr |-> usr]

\* the files cursors are visited in, and the lines referents are at
FromFiles == {1, 2}
RefLines == {1, 2}

InclusionCursors ==
    { Cursor(Loc(f, 1), "inclusion", g, NullRef, "") : f \in FromFiles, g \in FileIds \cup {0} }
ReferenceCursors ==
    { Cursor(Loc(p[1], 1), "other", 0, Ref("decl", Loc(p[2], l), ""), "") :
        p \in { q \in FromFiles \X FileIds : q[1] # q[2] }, l \in RefLines }
\* cursors handleReference passes over, a cursor without a location, and
\* cursors in the source and in a header for the dump and the AST query
PlainCursors ==
    { Cursor(Loc(1, 1), "other", 0, Ref("namespace", Loc(2, 1), "c:@N@n"), ""),
      Cursor(Loc(1, 1), "other", 0, Ref("decl", NullLocation, ""), "c:@y"),
      Cursor(Loc(1, 1), "other", 0, Ref("decl", Loc(1, 2), "c:@y"), ""),
      Cursor(Loc(1, 1), "other", 0, SelfRef, "c:@F@f"),
      Cursor(Loc(2, 1), "other", 0, NullRef, "c:@x"),
      Cursor(NullLocation, "other", 0, NullRef, "") }

\* a cursor of the AST as addCursor reads it: whether createLocation gives a
\* location, its USR, and the cursors clang_getCursorReferenced, the lexical
\* and the semantic parent (one cursor here), clang_getCanonicalCursor and
\* clang_getCursorDefinition give (0: the null cursor; definition is 0 as
\* well for a cursor that is a definition).  No cursor of these graphs has a
\* specialized template or overridden cursors
AstNode(located, usr, referenced, parent, canonical, definition) ==
    [located |-> located, usr |-> usr, referenced |-> referenced, parent |-> parent,
     canonical |-> canonical, definition |-> definition]

\* the cursors a VisitAST query walks: 1 a function declaration, which is its
\* own referenced and canonical cursor; 2 and 3 two declarations of one
\* variable, 3 the canonical one and the definition; 4 an expression in the
\* function that refers to the variable; 5 a statement, its own canonical
\* cursor, without a USR; 6 a declaration that refers to a cursor without a
\* location; 7 a cursor without a location
Ast ==
    <<AstNode(TRUE, "c:@F@f", 1, 0, 1, 0),
      AstNode(TRUE, "c:@x", 0, 0, 3, 3),
      AstNode(TRUE, "c:@x", 0, 0, 3, 0),
      AstNode(TRUE, "", 2, 2, 0, 0),
      AstNode(TRUE, "", 0, 2, 5, 0),
      AstNode(TRUE, "c:@z", 7, 0, 0, 0),
      AstNode(FALSE, "", 0, 0, 0, 0)>>

\* the cursor of the AST the visitor is called with: node id is on line id of
\* the source file
AstRef(id) ==
    IF Ast[id].referenced = 0 THEN NullRef
    ELSE IF Ast[id].referenced = id THEN SelfRef
    ELSE Ref("decl",
             IF Ast[Ast[id].referenced].located
             THEN Loc(SourceFileId, Ast[id].referenced) ELSE NullLocation,
             Ast[Ast[id].referenced].usr)
AstCursors ==
    { Cursor(IF Ast[id].located THEN Loc(SourceFileId, id) ELSE NullLocation,
             "other", 0, AstRef(id), Ast[id].usr) : id \in DOMAIN Ast }

CursorsFor(q) ==
    IF q.checkIncludes THEN InclusionCursors \cup ReferenceCursors \cup PlainCursors
    ELSE IF q.visitAST THEN AstCursors
    ELSE PlainCursors

(***************************************************************************)
(* The dependency graph: handleInclude, handleReference.                   *)
(***************************************************************************)
\* struct Dep: the node of a file, with the files it includes and, per file
\* it refers into, the referring location -> referent location map
NewDep(node, fileId) ==
    [node |-> node, fileId |-> fileId, includes |-> {}, references |-> << >>]
\* a null Dep* in the map
NullDep == [node |-> 0, fileId |-> 0, includes |-> {}, references |-> << >>]

HasDep(deps, fileId) == fileId \in DOMAIN deps /\ deps[fileId] # NullDep

\* a graph and the number of nodes allocated for it
Graph(deps, n) == [deps |-> deps, n |-> n]

\* a handleInclude that allocates a Dep whether the file has one or not
AlwaysNewDep(g, fileId) ==
    Graph(Insert(g.deps, fileId, NewDep(g.n + 1, fileId)), g.n + 1)

\* `Dep *&d = mDependencies[fileId]; if (!d) d = new Dep(fileId);`
EnsureDep(g, fileId) ==
    IF HasDep(g.deps, fileId) THEN g
    ELSE Graph(Insert(g.deps, fileId, NewDep(g.n + 1, fileId)), g.n + 1)

\* ClangThread::handleInclude
HandleInclude(g, loc, included) ==
    IF included = 0 THEN g
    ELSE LET g2 == EnsureDep(EnsureDep(g, loc.file), included)
         IN  Graph([g2.deps EXCEPT ![loc.file].includes = @ \cup {included}], g2.n)

\* the outcome of handleReference: the map, and whether an assert failed
RefOutcome(deps, failed) == [deps |-> deps, failed |-> failed]

\* `refs[loc] = refLoc` on dep->references[refDep->fileId]
Record(refs, target, loc, refLoc) ==
    Insert(refs, target,
           Insert(IF target \in DOMAIN refs THEN refs[target] ELSE << >>, loc, refLoc))

HandleReferenceKeepsNamespace(deps, loc, ref) ==
    IF IsNull(ref.loc) \/ ref.loc.file = loc.file THEN RefOutcome(deps, FALSE)
    ELSE IF ~HasDep(deps, loc.file) THEN RefOutcome(Insert(deps, loc.file, NullDep), TRUE)
    ELSE IF ~HasDep(deps, ref.loc.file)
    THEN RefOutcome(Insert(deps, ref.loc.file, NullDep), TRUE)
    ELSE RefOutcome([deps EXCEPT ![loc.file].references =
                        Record(@, ref.loc.file, loc, ref.loc)], FALSE)
\* ClangThread::handleReference; mDependencies[id] inserts a null pointer for
\* an id the map does not hold, and the assert on it fails (without asserts
\* the null pointer is dereferenced)
HandleReference(deps, loc, ref) ==
    IF ref.kind = "namespace" THEN RefOutcome(deps, FALSE)
    ELSE IF IsNull(ref.loc) \/ ref.loc.file = loc.file THEN RefOutcome(deps, FALSE)
    ELSE IF ~HasDep(deps, loc.file) THEN RefOutcome(Insert(deps, loc.file, NullDep), TRUE)
    ELSE IF ~HasDep(deps, ref.loc.file)
    THEN RefOutcome(Insert(deps, ref.loc.file, NullDep), TRUE)
    ELSE RefOutcome([deps EXCEPT ![loc.file].references =
                        Record(@, ref.loc.file, loc, ref.loc)], FALSE)

(***************************************************************************)
(* The walk: clang_visitChildren and ClangThread::visit.                   *)
(***************************************************************************)
\* A frame is a traversal of some cursor's children: "root" is the call in
\* run(), "nested" a call made by visit(), "recurse" the front end's own
\* descent after the visitor returned Recurse.
Pop(stk) == SubSeq(stk, 1, Len(stk) - 1)
Top(stk) == stk[Len(stk)]

Walk(stk, indent, ret) == [stack |-> stk, indent |-> indent, returned |-> ret]

\* visit() after its clang_visitChildren returned: Break when aborted, else
\* the indentation is restored and the walk goes on with the next sibling
RECURSIVE Unwind(_, _, _)

\* a visit() that goes on with the next sibling whatever the abort flag says
AfterNestedWalkIgnoresAbort(stk, indent, aborted) == Walk(stk, indent - 1, "Continue")

AfterNestedWalk(stk, indent, aborted) ==
    IF aborted THEN Unwind(stk, indent, aborted) ELSE Walk(stk, indent - 1, "Continue")

\* the visitor returned Break in the traversal on top of stk: the front end
\* leaves its own recursion and returns from the clang_visitChildren call
Unwind(stk, indent, aborted) ==
    IF stk = << >> THEN Walk(stk, indent, "Break")
    ELSE IF Top(stk) = "recurse" THEN Unwind(Pop(stk), indent, aborted)
    ELSE IF Top(stk) = "root" THEN Walk(Pop(stk), indent, "Break")
    ELSE AfterNestedWalk(Pop(stk), indent, aborted)

\* the traversal on top of stk has no more children to visit
LevelEnds(stk, indent, aborted, ret) ==
    IF Top(stk) = "nested" THEN AfterNestedWalk(Pop(stk), indent, aborted)
    ELSE Walk(Pop(stk), indent, ret)

Line(kind, a, b) == [kind |-> kind, a |-> a, b |-> b]

\* the outcome of addCursor: the USRs recorded, and whether the recursion
\* ran the stack out
AddOutcome(cursors, overflow) == [cursors |-> cursors, overflow |-> overflow]

\* one call of addCursor with what it finds recorded
Call(id, cursors) == <<id, cursors>>

\* mCursorsByUsr[c->usr] = c.get(), for a cursor that has a USR
Recorded(cursors, usr) == IF usr = "" THEN cursors ELSE cursors \cup {usr}

\* ClangThread::addCursor for cursor id of graph: it returns at once for the
\* null cursor, a cursor without a location and a cursor whose USR is
\* recorded; else it adds the referenced cursor, records the cursor's USR,
\* and adds the lexical parent, the semantic parent (twice), the canonical
\* cursor and the definition.  open holds the calls that have not returned:
\* a call equal to one of them makes the same calls again, without end
RECURSIVE AddCursorAt(_, _, _, _)
AddCursorAt(graph, id, out, open) ==
    IF out.overflow \/ id = 0 THEN out
    ELSE IF ~graph[id].located THEN out
    ELSE IF graph[id].usr # "" /\ graph[id].usr \in out.cursors THEN out
    ELSE IF Call(id, out.cursors) \in open THEN AddOutcome(out.cursors, TRUE)
    ELSE LET inner == open \cup {Call(id, out.cursors)}
             referenced == AddCursorAt(graph, graph[id].referenced, out, inner)
             recorded == IF referenced.overflow THEN referenced
                         ELSE AddOutcome(Recorded(referenced.cursors, graph[id].usr), FALSE)
             lexicalParent == AddCursorAt(graph, graph[id].parent, recorded, inner)
             semanticParent == AddCursorAt(graph, graph[id].parent, lexicalParent, inner)
             semanticAgain == AddCursorAt(graph, graph[id].parent, semanticParent, inner)
             canonical == AddCursorAt(graph, graph[id].canonical, semanticAgain, inner)
         IN  AddCursorAt(graph, graph[id].definition, canonical, inner)

\* ClangThread::addCursor(cursor, location) as visit() calls it, for a cursor
\* of the AST that has a location
AddCursor(cursors, cursor) ==
    LET a == AddCursorAt(Ast, cursor.loc.line, AddOutcome(cursors, FALSE), {})
    IN  IF a.overflow THEN AddOutcome(cursors, TRUE) ELSE a

PcAfter(stk) == IF stk = << >> THEN "walked" ELSE "walk"

\* one callback of the visitor, ClangThread::visit(cursor)
VisitCursor(cursor) ==
    /\ pc = "walk"
    /\ visited < MaxCursors
    /\ Len(stack) <= MaxDepth
    /\ visited' = visited + 1
    /\ IF mAborted
       THEN LET w == Unwind(stack, mIndentLevel, mAborted)
            IN  /\ stack' = w.stack
                /\ mIndentLevel' = w.indent
                /\ returned' = w.returned
                /\ pc' = PcAfter(w.stack)
                /\ UNCHANGED <<mDependencies, nNodes, released, mCursorsByUsr, posted>>
       ELSE IF IsNull(cursor.loc)
       THEN /\ mIndentLevel' = mIndentLevel + 1
            /\ stack' = Append(stack, "nested")
            /\ UNCHANGED <<pc, returned, mDependencies, nNodes, released, mCursorsByUsr, posted>>
       ELSE IF query.checkIncludes
       THEN IF cursor.kind = "inclusion"
            THEN LET g == HandleInclude(Graph(mDependencies, nNodes), cursor.loc, cursor.included)
                 IN  /\ mDependencies' = g.deps
                     /\ nNodes' = g.n
                     /\ released' = [i \in 1..g.n |-> IF i <= nNodes THEN released[i] ELSE 0]
                     /\ stack' = Append(stack, "recurse")
                     /\ returned' = "Recurse"
                     /\ UNCHANGED <<pc, mIndentLevel, mCursorsByUsr, posted>>
            ELSE IF cursor.ref = SelfRef
            THEN /\ stack' = Append(stack, "recurse")
                 /\ returned' = "Recurse"
                 /\ UNCHANGED <<pc, mIndentLevel, mDependencies, nNodes, released,
                                mCursorsByUsr, posted>>
            ELSE LET r == HandleReference(mDependencies, cursor.loc, cursor.ref)
                 IN  /\ mDependencies' = r.deps
                     /\ pc' = IF r.failed THEN "crashed" ELSE pc
                     /\ stack' = IF r.failed THEN stack ELSE Append(stack, "recurse")
                     /\ returned' = IF r.failed THEN returned ELSE "Recurse"
                     /\ UNCHANGED <<mIndentLevel, nNodes, released, mCursorsByUsr, posted>>
       ELSE IF query.visitAST
       THEN LET a == AddCursor(mCursorsByUsr, cursor)
            IN  /\ mCursorsByUsr' = a.cursors
                /\ pc' = IF a.overflow THEN "overflow" ELSE pc
                /\ stack' = IF a.overflow THEN stack ELSE Append(stack, "recurse")
                /\ returned' = IF a.overflow THEN returned ELSE "Recurse"
                /\ UNCHANGED <<mIndentLevel, mDependencies, nNodes, released, posted>>
       ELSE IF ~query.includeHeaders /\ cursor.loc.file # SourceFileId
       THEN /\ returned' = "Continue"
            /\ UNCHANGED <<pc, stack, mIndentLevel, mDependencies, nNodes, released,
                           mCursorsByUsr, posted>>
       ELSE /\ posted' = Append(posted, Line("cursor", mIndentLevel, 0))
            /\ mIndentLevel' = mIndentLevel + 1
            /\ stack' = Append(stack, "nested")
            /\ UNCHANGED <<pc, returned, mDependencies, nNodes, released, mCursorsByUsr>>
    /\ UNCHANGED <<query, disposals, mAborted, runUnit>>

\* the traversal in progress runs out of children
LevelDone ==
    /\ pc = "walk"
    /\ stack # << >>
    /\ LET w == LevelEnds(stack, mIndentLevel, mAborted, returned)
       IN  /\ stack' = w.stack
           /\ mIndentLevel' = w.indent
           /\ returned' = w.returned
           /\ pc' = PcAfter(w.stack)
    /\ UNCHANGED <<query, disposals, mAborted, runUnit, visited, mDependencies, nNodes,
                   released, mCursorsByUsr, posted>>

\* ClangThread::abort, run by the connection's disconnected signal, which is
\* connected from the start of run() until the walk has returned
Abort ==
    /\ pc \in {"parsing", "walk"}
    /\ ~mAborted
    /\ mAborted' = TRUE
    /\ UNCHANGED <<query, disposals, pc, runUnit, stack, mIndentLevel, returned, visited, mDependencies,
                   nNodes, released, mCursorsByUsr, posted>>

(***************************************************************************)
(* The include audit: validateHasInclude, validateNeedsInclude and         *)
(* ClangThread::checkIncludes().                                           *)
(***************************************************************************)
\* the members of a set of file ids in the order a container enumerates
\* them: ascending or descending
RECURSIVE Enumerate(_, _)
Enumerate(S, up) ==
    IF S = {} THEN << >>
    ELSE LET x == CHOOSE y \in S : \A z \in S : IF up THEN y <= z ELSE y >= z
         IN  <<x>> \o Enumerate(S \ {x}, up)

\* the calls one search may make: the searches are recursive, and a search
\* that needs more calls than a graph on FileIds has edges does not end
CallBudget == Cardinality(FileIds) * Cardinality(FileIds) + 1

\* a search in progress: the seen-set, shared by reference between the calls,
\* the number of calls so far, and what the last call returned
Search(ret, seen, calls) == [ret |-> ret, seen |-> seen, calls |-> calls]
OutOfBudget(s) == s.calls > CallBudget

RECURSIVE ValidateHasInclude(_, _, _, _, _)
RECURSIVE HasIncludeLoop(_, _, _, _, _, _)
RECURSIVE ValidateNeedsInclude(_, _, _, _, _)
RECURSIVE NeedsIncludeLoop(_, _, _, _, _, _)

\* `for (pair : cur->includes) if (validateHasInclude(ref, pair.second, seen)) return true;`
HasIncludeLoop(deps, ref, children, i, s, up) ==
    IF i > Len(children) THEN Search(FALSE, s.seen, s.calls)
    ELSE LET r == ValidateHasInclude(deps, ref, children[i], s, up)
         IN  IF r.ret \/ OutOfBudget(r) THEN r
             ELSE HasIncludeLoop(deps, ref, children, i + 1, r, up)

\* a validateHasInclude for which a ref already in the seen-set counts as found
HasIncludeSeenIsFound(deps, ref, cur, s, up) ==
    IF s.calls >= CallBudget THEN Search(FALSE, s.seen, s.calls + 1)
    ELSE IF ref \in deps[cur].includes THEN Search(TRUE, s.seen, s.calls + 1)
    ELSE IF ref \in s.seen THEN Search(TRUE, s.seen, s.calls + 1)
    ELSE HasIncludeLoop(deps, ref, Enumerate(deps[cur].includes, up), 1,
                        Search(FALSE, s.seen \cup {ref}, s.calls + 1), up)

\* validateHasInclude(ref, cur, seen)
ValidateHasInclude(deps, ref, cur, s, up) ==
    IF s.calls >= CallBudget THEN Search(FALSE, s.seen, s.calls + 1)
    ELSE IF ref \in deps[cur].includes THEN Search(TRUE, s.seen, s.calls + 1)
    ELSE IF ref \in s.seen THEN Search(FALSE, s.seen, s.calls + 1)
    ELSE HasIncludeLoop(deps, ref, Enumerate(deps[cur].includes, up), 1,
                        Search(FALSE, s.seen \cup {ref}, s.calls + 1), up)

\* `for (child : header->includes) if (validateNeedsInclude(source, child.second, seen)) return true;`
NeedsIncludeLoop(deps, source, children, i, s, up) ==
    IF i > Len(children) THEN Search(FALSE, s.seen, s.calls)
    ELSE LET r == ValidateNeedsInclude(deps, source, children[i], s, up)
         IN  IF r.ret \/ OutOfBudget(r) THEN r
             ELSE NeedsIncludeLoop(deps, source, children, i + 1, r, up)

\* a validateNeedsInclude that looks for the source among the header's references
NeedsIncludeSwapped(deps, source, header, s, up) ==
    IF s.calls >= CallBudget THEN Search(FALSE, s.seen, s.calls + 1)
    ELSE IF header \in s.seen THEN Search(FALSE, s.seen, s.calls + 1)
    ELSE IF source \in DOMAIN deps[header].references
    THEN Search(TRUE, s.seen \cup {header}, s.calls + 1)
    ELSE NeedsIncludeLoop(deps, source, Enumerate(deps[header].includes, up), 1,
                          Search(FALSE, s.seen \cup {header}, s.calls + 1), up)

\* a validateNeedsInclude that does not look into what the header includes
NeedsIncludeDirectOnly(deps, source, header, s, up) ==
    IF s.calls >= CallBudget THEN Search(FALSE, s.seen, s.calls + 1)
    ELSE IF header \in s.seen THEN Search(FALSE, s.seen, s.calls + 1)
    ELSE Search(header \in DOMAIN deps[source].references, s.seen \cup {header}, s.calls + 1)

\* a validateNeedsInclude without the seen-set
NeedsIncludeNoSeen(deps, source, header, s, up) ==
    IF s.calls >= CallBudget THEN Search(FALSE, s.seen, s.calls + 1)
    ELSE IF header \in DOMAIN deps[source].references
    THEN Search(TRUE, s.seen, s.calls + 1)
    ELSE NeedsIncludeLoop(deps, source, Enumerate(deps[header].includes, up), 1,
                          Search(FALSE, s.seen, s.calls + 1), up)

\* validateNeedsInclude(source, header, seen)
ValidateNeedsInclude(deps, source, header, s, up) ==
    IF s.calls >= CallBudget THEN Search(FALSE, s.seen, s.calls + 1)
    ELSE IF header \in s.seen THEN Search(FALSE, s.seen, s.calls + 1)
    ELSE IF header \in DOMAIN deps[source].references
    THEN Search(TRUE, s.seen \cup {header}, s.calls + 1)
    ELSE NeedsIncludeLoop(deps, source, Enumerate(deps[header].includes, up), 1,
                          Search(FALSE, s.seen \cup {header}, s.calls + 1), up)

\* `Set<uint32_t> seen;` and the search started with it
NeedsSearch(deps, source, header, up) ==
    ValidateNeedsInclude(deps, source, header, Search(FALSE, {}, 0), up)
HasSearch(deps, source, ref, up) ==
    ValidateHasInclude(deps, ref, source, Search(FALSE, {}, 0), up)

\* the first loop of checkIncludes() for one file
RECURSIVE NoReasonLines(_, _, _, _, _)
NoReasonLines(deps, file, headers, i, up) ==
    IF i > Len(headers) THEN << >>
    ELSE (IF NeedsSearch(deps, file, headers[i], up).ret THEN << >>
          ELSE <<Line("noReason", file, headers[i])>>)
             \o NoReasonLines(deps, file, headers, i + 1, up)

\* the second loop of checkIncludes() for one file
RECURSIVE ShouldIncludeLines(_, _, _, _, _)
ShouldIncludeLines(deps, file, refs, i, up) ==
    IF i > Len(refs) THEN << >>
    ELSE (IF IsExempt(PathOfId(refs[i])) \/ HasSearch(deps, file, refs[i], up).ret THEN << >>
          ELSE <<Line("shouldInclude", file, refs[i])>>)
             \o ShouldIncludeLines(deps, file, refs, i + 1, up)

\* the body of `for (it : mDependencies)`
FileLines(deps, file, up) ==
    IF IsSystem(PathOfId(file)) THEN << >>
    ELSE NoReasonLines(deps, file, Enumerate(deps[file].includes, up), 1, up)
            \o ShouldIncludeLines(deps, file, Enumerate(DOMAIN deps[file].references, up), 1, up)

RECURSIVE AuditLines(_, _, _, _)
AuditLines(deps, files, i, up) ==
    IF i > Len(files) THEN << >>
    ELSE FileLines(deps, files[i], up) \o AuditLines(deps, files, i + 1, up)

\* some search of the audit does not return
AuditHangs(deps, up) ==
    \E file \in DOMAIN deps :
        /\ ~IsSystem(PathOfId(file))
        /\ \/ \E header \in deps[file].includes :
                 OutOfBudget(NeedsSearch(deps, file, header, up))
           \/ \E ref \in DOMAIN deps[file].references :
                 ~IsExempt(PathOfId(ref)) /\ OutOfBudget(HasSearch(deps, file, ref, up))

\* `for (auto it : mDependencies) delete it.second;`
DeleteAll(deps, rel) ==
    [i \in DOMAIN rel |->
        IF \E f \in DOMAIN deps : deps[f].node = i THEN rel[i] + 1 ELSE rel[i]]

(***************************************************************************)
(* ClangThread::run                                                        *)
(***************************************************************************)
\* the thread starts and connects abort() to the connection's disconnected
RunStart ==
    /\ pc = "start"
    /\ pc' = "parsing"
    /\ UNCHANGED <<query, disposals, mAborted, runUnit, stack, mIndentLevel, returned, visited,
                   mDependencies, nNodes, released, mCursorsByUsr, posted>>

\* parseTranslationUnit and what run() writes about it; the walk begins
Parse(ok) ==
    /\ pc = "parsing"
    /\ runUnit' = IF ok THEN 1 ELSE NullTU
    /\ posted' = posted
                 \o (IF ~query.checkIncludes /\ ~query.visitAST
                     THEN <<Line("indexed", IF ok THEN 1 ELSE 0, 0)>> ELSE << >>)
                 \o (IF ~ok /\ query.visitAST THEN <<Line("failure", 0, 0)>> ELSE << >>)
    /\ stack' = IF ok THEN <<"root">> ELSE << >>
    /\ pc' = IF ok THEN "walk" ELSE "walked"
    /\ UNCHANGED <<query, disposals, mAborted, mIndentLevel, returned, visited, mDependencies, nNodes,
                   released, mCursorsByUsr>>

\* run() has disposed of nothing yet
NoDisposals == [unit |-> 0, index |-> 0]

DisposeIndexOnly(done, unit) == [done EXCEPT !.index = @ + 1]
\* clang_disposeTranslationUnit for a unit that is not null, then
\* clang_disposeIndex
DisposeRun(done, unit) ==
    [unit |-> done.unit + (IF unit # NullTU THEN 1 ELSE 0), index |-> done.index + 1]

\* the rest of run() up to the disposals: disconnect, checkIncludes(), the
\* translation unit and the index are disposed of
RunEnd(up) ==
    /\ pc = "walked"
    /\ IF query.checkIncludes
       THEN IF AuditHangs(mDependencies, up)
            THEN /\ pc' = "hung"
                 /\ UNCHANGED <<released, posted, disposals>>
            ELSE /\ pc' = "disposed"
                 /\ released' = DeleteAll(mDependencies, released)
                 /\ posted' = posted
                              \o AuditLines(mDependencies, Enumerate(DOMAIN mDependencies, up), 1, up)
                 /\ disposals' = DisposeRun(disposals, runUnit)
       ELSE /\ pc' = "disposed"
            /\ disposals' = DisposeRun(disposals, runUnit)
            /\ UNCHANGED <<released, posted>>
    /\ UNCHANGED <<query, mAborted, runUnit, stack, mIndentLevel, returned, visited,
                   mDependencies, nNodes, mCursorsByUsr>>

\* the end of run(): finish is posted to the main loop
Finish ==
    /\ pc = "disposed"
    /\ pc' = "finished"
    /\ posted' = Append(posted, Line("finish", 0, 0))
    /\ UNCHANGED <<query, disposals, mAborted, runUnit, stack, mIndentLevel, returned, visited,
                   mDependencies, nNodes, released, mCursorsByUsr>>

\* a ClangThread as its constructor leaves it
ThreadInit ==
    /\ query \in Queries
    /\ pc = "start"
    /\ mAborted = FALSE
    /\ runUnit = NullTU
    /\ stack = << >>
    /\ mIndentLevel = 0
    /\ returned = "none"
    /\ visited = 0
    /\ mDependencies = << >>
    /\ nNodes = 0
    /\ released = << >>
    /\ mCursorsByUsr = {}
    /\ disposals = NoDisposals
    /\ posted = << >>

RunStep ==
    \/ RunStart
    \/ \E ok \in BOOLEAN : Parse(ok)
    \/ Abort
    \/ \E cursor \in CursorsFor(query) : VisitCursor(cursor)
    \/ LevelDone
    \/ \E up \in BOOLEAN : RunEnd(up)
    \/ Finish

(***************************************************************************)
(* The graphs a walk with DumpCheckIncludes can leave: the nodes are the   *)
(* files at the ends of include edges, and references run between nodes.   *)
(***************************************************************************)
RECURSIVE SubsetsUpTo(_, _)
SubsetsUpTo(S, k) ==
    IF k = 0 THEN {{}}
    ELSE LET smaller == SubsetsUpTo(S, k - 1)
         IN  smaller \cup { s \cup {x} : s \in smaller, x \in S }

NodesOf(edges) == { e[1] : e \in edges } \cup { e[2] : e \in edges }

\* the node of file f in the graph with these include edges and references
DepOf(f, edges, refs) ==
    [node |-> Cardinality({ g \in NodesOf(edges) : g <= f }),
     fileId |-> f,
     includes |-> { e[2] : e \in { d \in edges : d[1] = f } },
     references |-> [r \in { e[2] : e \in { d \in refs : d[1] = f } } |->
                        (Loc(f, 1) :> Loc(r, 1))]]

GraphOf(edges, refs) == [f \in NodesOf(edges) |-> DepOf(f, edges, refs)]

AuditInit ==
    /\ query = Query(TRUE, FALSE, FALSE)
    /\ pc = "walked"
    /\ mAborted = FALSE
    /\ runUnit = 1
    /\ stack = << >>
    /\ mIndentLevel = 0
    /\ mCursorsByUsr = {}
    /\ disposals = NoDisposals
    /\ posted = << >>
    /\ \E edges \in SubsetsUpTo(FileIds \X FileIds, MaxIncludes) :
       \E refs \in SubsetsUpTo({ p \in NodesOf(edges) \X NodesOf(edges) : p[1] # p[2] }, MaxRefs) :
          /\ mDependencies = GraphOf(edges, refs)
          /\ nNodes = Cardinality(NodesOf(edges))
          /\ released = [i \in 1..Cardinality(NodesOf(edges)) |-> 0]
          /\ visited = Cardinality(edges) + Cardinality(refs)
          /\ returned = IF edges = {} THEN "none" ELSE "Recurse"

(***************************************************************************)
(* The specifications.                                                     *)
(***************************************************************************)
\* no ClangThread exists
NoThread ==
    /\ query = Query(FALSE, FALSE, FALSE)
    /\ pc = "none"
    /\ mAborted = FALSE
    /\ runUnit = NullTU
    /\ stack = << >>
    /\ mIndentLevel = 0
    /\ returned = "none"
    /\ visited = 0
    /\ mDependencies = << >>
    /\ nNodes = 0
    /\ released = << >>
    /\ mCursorsByUsr = {}
    /\ disposals = NoDisposals
    /\ posted = << >>

DaemonNext == DaemonCommand /\ UNCHANGED threadVars

\* the daemon, before any query has started a ClangThread
Init == DaemonInit /\ NoThread

SpecDaemon == Init /\ [][DaemonNext]_vars

RunNext == RunStep /\ UNCHANGED daemonVars

\* a query has constructed a ClangThread
RunInit == DaemonInit /\ ThreadInit

SpecRun == RunInit /\ [][RunNext]_vars

AuditStep ==
    \/ \E up \in BOOLEAN : RunEnd(up)
    \/ Finish

AuditNext == AuditStep /\ UNCHANGED daemonVars

\* the walk of a DumpCheckIncludes run has returned
WalkedInit == DaemonInit /\ AuditInit

SpecAudit == WalkedInit /\ [][AuditNext]_vars


(***************************************************************************)
(* Properties of the daemon.                                               *)
(***************************************************************************)
\* the non-null handles the parse thread has handed to onFileParsed
Delivered == 1..nextHandle

\* the cache entries that hold handle h
HoldersOf(h) == { p \in Cached : mTranslationUnits[p] = h }

SeqToSet(q) == { q[i] : i \in 1..Len(q) }

\* the step is a `remove` that answered "Removed ..."
RemoveSucceeds(regexp, freeArgs) ==
    /\ reply = NoReply
    /\ reply'.cmd = "remove" /\ reply'.result = "Removed"
    /\ Len(freeArgs) = 1 /\ reply'.arg = freeArgs[1]
    /\ RemoveSourceFile(regexp, freeArgs)

\* C1: across load, remove and load completions every delivered non-null
\* handle is either held by exactly one cache entry and not released, or held
\* by none and released exactly once.
C1_HandleCachedOnceOrReleasedOnce ==
    \A h \in Delivered :
        \/ Cardinality(HoldersOf(h)) = 1 /\ disposed[h] = 0
        \/ HoldersOf(h) = {} /\ disposed[h] = 1

\* a remove has released a handle while another handle delivered later is cached
C1_Witness ==
    /\ reply.cmd = "remove" /\ reply.result = "Removed"
    /\ \E h \in Delivered : disposed[h] = 1
    /\ \E h \in Delivered : HoldersOf(h) # {}
    /\ jobs # << >>

\* C2: a remove that reports success leaves no cache entry whose path matches
\* the pattern, and leaves every entry whose path does not match in the cache
\* with the handle it had.
C2_RemoveErasesExactlyTheMatches ==
    [][\A regexp \in BOOLEAN, freeArgs \in FreeArgLists :
          RemoveSucceeds(regexp, freeArgs) =>
              /\ \A p \in DOMAIN mTranslationUnits' : ~KeyMatches(p, regexp, freeArgs[1])
              /\ \A p \in Cached :
                    ~KeyMatches(p, regexp, freeArgs[1]) =>
                        /\ p \in DOMAIN mTranslationUnits'
                        /\ mTranslationUnits'[p] = mTranslationUnits[p]]_vars

\* a successful regular-expression remove that erased one entry and kept a
\* non-null handle under a path the pattern does not match
C2_Witness ==
    /\ reply.cmd = "remove" /\ reply.result = "Removed" /\ reply.arg = <<"a", "$">>
    /\ Cached = {PathAB}
    /\ mTranslationUnits[PathAB] # NullTU
    /\ \E h \in Delivered : disposed[h] = 1

\* C3: after a successful remove that erased the entry of path P, the visit
\* thread's files() does not contain P.
C3_RemovedPathNotInFiles ==
    [][\A regexp \in BOOLEAN, freeArgs \in FreeArgLists :
          RemoveSucceeds(regexp, freeArgs) =>
              \A p \in Cached \ DOMAIN mTranslationUnits' : p \notin visitFiles']_vars

\* C4: the list a successful remove returns holds exactly the paths whose
\* entries the command erased, each once.
C4_RemovedListIsTheErasedPaths ==
    [][\A regexp \in BOOLEAN, freeArgs \in FreeArgLists :
          RemoveSucceeds(regexp, freeArgs) =>
              /\ SeqToSet(reply'.list) = Cached \ DOMAIN mTranslationUnits'
              /\ Len(reply'.list) = Cardinality(SeqToSet(reply'.list))]_vars

\* C5: once `add P` has succeeded and the parse of P has completed with a
\* non-null TU, a lookupline with valid arguments for P does not answer
\* "Translation unit not found".
C5_LookupAfterAddFindsUnit ==
    (/\ reply.cmd = "lookupline"
     /\ reply.arg \in parsedOk
     /\ reply.result \notin {"Invalid argument count", "Invalid argument type"})
        => reply.result # "Translation unit not found"

(***************************************************************************)
(* Properties of the include audit and of the walk.                        *)
(***************************************************************************)
\* the audit has written this report
Reported(kind, file, other) ==
    \E i \in 1..Len(posted) : posted[i] = Line(kind, file, other)

\* the files that include edges lead to from the files of S, S included
RECURSIVE IncludeClosure(_, _, _)
IncludeClosure(deps, S, k) ==
    IF k = 0 THEN S
    ELSE IncludeClosure(deps,
                        S \cup UNION { deps[f].includes : f \in S \cap DOMAIN deps },
                        k - 1)

\* the files an include path of one or more edges leads to from file
IncludedFrom(deps, file) ==
    IncludeClosure(deps, deps[file].includes, Cardinality(FileIds))

\* C6: when a non-system file F refers into a file R that is not one of the
\* exempt synthetic headers and no include path leads from F to R, the
\* finished audit has reported "F should include R".
C6_NoIncludePathIsReported ==
    pc = "finished" =>
        \A file \in DOMAIN mDependencies :
            \A ref \in DOMAIN mDependencies[file].references :
                (/\ ~IsSystem(PathOfId(file))
                 /\ ~IsExempt(PathOfId(ref))
                 /\ ref \notin IncludedFrom(mDependencies, file))
                    => Reported("shouldInclude", file, ref)

\* file 1 includes file 2 and refers into file 3, which nothing it includes
\* leads to: the report is there
C6_Witness ==
    /\ pc = "finished"
    /\ {1, 2} \subseteq DOMAIN mDependencies
    /\ 2 \in mDependencies[1].includes
    /\ 3 \in DOMAIN mDependencies[1].references
    /\ 3 \notin IncludedFrom(mDependencies, 1)
    /\ Reported("shouldInclude", 1, 3)

\* C7: when F includes H directly and refers to a symbol of H, the finished
\* audit has not reported "F includes H for no reason".
C7_UsedIncludeIsNotReported ==
    pc = "finished" =>
        \A file \in DOMAIN mDependencies :
            \A header \in mDependencies[file].includes :
                header \in DOMAIN mDependencies[file].references
                    => ~Reported("noReason", file, header)

\* file 1 includes files 2 and 3 and refers into 2 only: 3 is reported, 2 is not
C7_Witness ==
    /\ pc = "finished"
    /\ 1 \in DOMAIN mDependencies
    /\ {2, 3} \subseteq mDependencies[1].includes
    /\ 2 \in DOMAIN mDependencies[1].references
    /\ Reported("noReason", 1, 3)
    /\ ~Reported("noReason", 1, 2)

\* C8: both searches of the audit return on every include graph, the cyclic
\* ones included: the run is never left inside a search.
C8_AuditSearchesTerminate == pc # "hung"

\* files 1 and 2 include each other and 1 refers into a third file: both
\* searches have gone round the cycle and the audit has finished
C8_Witness ==
    /\ pc = "finished"
    /\ {1, 2} \subseteq DOMAIN mDependencies
    /\ 2 \in mDependencies[1].includes
    /\ 1 \in mDependencies[2].includes
    /\ 3 \in DOMAIN mDependencies[1].references
    /\ Reported("noReason", 1, 2)
    /\ Reported("shouldInclude", 1, 3)

\* C9: no Dep node is deleted twice, and when run() has finished every Dep
\* node allocated during the walk has been deleted once, whichever way the
\* run went (walk completed, aborted, or parse failed).
C9_EveryDepReleasedOnce ==
    /\ \A i \in 1..nNodes : released[i] <= 1
    /\ pc = "finished" => \A i \in 1..nNodes : released[i] = 1

\* an aborted run that had allocated nodes has finished
C9_Witness ==
    /\ pc = "finished"
    /\ mAborted
    /\ nNodes >= 2
    /\ \A i \in 1..nNodes : released[i] = 1

\* C10: once mAborted is set, a step of the walk processes no cursor (nothing
\* is written, no Dep and no USR is recorded), a callback returns Break, and
\* the Break leaves every enclosing traversal: the walk has ended.
C10_AbortEndsTheWalk ==
    [][(pc = "walk" /\ mAborted) =>
          /\ posted' = posted
          /\ mDependencies' = mDependencies
          /\ nNodes' = nNodes
          /\ mCursorsByUsr' = mCursorsByUsr
          /\ Len(stack') < Len(stack)
          /\ (visited' # visited => returned' = "Break" /\ stack' = << >> /\ pc' = "walked")
      ]_vars

\* a dump of every file: two cursors were written and their children were
\* being walked when the connection went; the third callback returned Break
\* and both nested walks were left without restoring the indentation
C10_Witness ==
    /\ pc = "walked"
    /\ mAborted
    /\ ~query.checkIncludes /\ ~query.visitAST /\ query.includeHeaders
    /\ visited = 3
    /\ mIndentLevel = 2
    /\ returned = "Break"
    /\ stack = << >>

(***************************************************************************)
(* Properties of quit, add, load and lookupline.                           *)
(***************************************************************************)
\* C11: while the quit handler waits, both threads have been asked to stop;
\* the reply `quitting` exists only when both threads have finished and the
\* application has not exited; the application exits only after a
\* `quitting` reply has been pushed to the client and the handler returned.
C11_QuitWaitsThenRepliesThenExits ==
    /\ mainThread = "waiting" => parseThread # "running" /\ visitThread # "running"
    /\ reply.result = "quitting" =>
          /\ parseThread = "finished"
          /\ visitThread = "finished"
          /\ mainThread = "loop"
    /\ exitTimer => parseThread = "finished" /\ visitThread = "finished"
    /\ mainThread = "exited" =>
          /\ quitSent
          /\ reply = NoReply
          /\ parseThread = "finished"
          /\ visitThread = "finished"

\* the application has exited after a quit that found a load in flight
C11_Witness ==
    /\ mainThread = "exited"
    /\ quitSent
    /\ PathA \in Cached
    /\ mTranslationUnits[PathA] = NullTU
    /\ jobs = << >>

\* the positions of the parse jobs for path in the queue q
ParseJobsFor(q, path) == { i \in 1..Len(q) : q[i].kind = "parse" /\ q[i].path = path }

\* the step is `add --file=file`, answered
AddAnswers(file) ==
    /\ reply = NoReply
    /\ reply'.cmd = "add"
    /\ reply'.arg = file
    /\ AddSourceFile(file)

\* C12: `add` with a file that resolves answers "File added" and leaves
\* exactly one parse job for the resolved path in the queue, with empty
\* compiler arguments, the other jobs and the cache untouched; `add` with no
\* file or with a file that does not resolve answers an error and changes
\* neither the queue nor the cache.
C12_AddEnqueuesOneJobOrFails ==
    [][\A file \in Names :
          AddAnswers(file) =>
             IF file # << >> /\ Resolve(file) # << >>
             THEN /\ reply'.result = "File added"
                  /\ Cardinality(ParseJobsFor(jobs', Resolve(file))) = 1
                  /\ \A i \in ParseJobsFor(jobs', Resolve(file)) : jobs'[i].args = << >>
                  /\ Len(jobs') <= Len(jobs) + 1
                  /\ \A i \in 1..Len(jobs) :
                        i \notin ParseJobsFor(jobs, Resolve(file)) => jobs'[i] = jobs[i]
                  /\ mTranslationUnits' = mTranslationUnits
             ELSE /\ reply'.result \in {"No file to add", "Doesn't exist"}
                  /\ jobs' = jobs
                  /\ mTranslationUnits' = mTranslationUnits
      ]_vars

\* `add --file=a` has been answered; its parse job is queued behind a load
C12_Witness ==
    /\ reply = Reply("add", RelA, "File added", << >>)
    /\ jobs = <<Job("load", PathAB, << >>), Job("parse", PathA, GccArguments)>>

\* the positions of the load jobs for path in the queue q
LoadJobsFor(q, path) == { i \in 1..Len(q) : q[i].kind = "load" /\ q[i].path = path }

\* the step is `load name`, answered "Loading"
LoadStarts(name) ==
    /\ reply = NoReply
    /\ reply'.cmd = "load"
    /\ reply'.result = "Loading"
    /\ Load(<<name>>)

\* path is mapped to the null sentinel
HasSentinel(tus, path) == path \in DOMAIN tus /\ tus[path] = NullTU

\* C13: a `load P` that is accepted releases the non-null handle cached for P
\* once and no other handle, leaves P mapped to the null sentinel and the
\* other entries as they were, and appends one load job for P; while that job
\* is pending the sentinel of P is changed by nothing but the completion of
\* the load of P.
C13_LoadInstallsSentinelUntilCompletion ==
    [][/\ \A name \in Names :
             LoadStarts(name) =>
                LET P == LoadName(name)
                    old == Value(mTranslationUnits, P)
                IN  /\ \A h \in Handles :
                          disposed'[h] = disposed[h] + (IF h = old THEN 1 ELSE 0)
                    /\ HasSentinel(mTranslationUnits', P)
                    /\ \A q \in Cached \ {P} :
                          q \in DOMAIN mTranslationUnits'
                             /\ mTranslationUnits'[q] = mTranslationUnits[q]
                    /\ jobs' = Append(jobs, Job("load", P, << >>))
                    /\ LoadJobsFor(jobs, P) = {}
       /\ \A P \in Files :
             (/\ LoadJobsFor(jobs, P) # {}
              /\ HasSentinel(mTranslationUnits, P)
              /\ ~HasSentinel(mTranslationUnits', P))
                => jobs[1] = Job("load", P, << >>) /\ jobs' = Tail(jobs)
      ]_vars

\* the step is a lookupline that found the referenced cursor at target
LookupFinds(req, target) ==
    /\ reply = NoReply
    /\ reply'.cmd = "lookupline"
    /\ reply'.result = "Symbol (decl) at"
    /\ LookupLine(req, "Symbol (decl) at", target)

\* C14: the text a successful lookupline returns is the whole of
\* "Symbol (decl) at <path>, line L column C" for the target's path, line and
\* column, whatever the length of the path.
C14_LookupTextIsComplete ==
    [][\A req \in LookupRequests, target \in Targets :
          LookupFinds(req, target) => reply'.list = SymbolText(target)
      ]_vars

(***************************************************************************)
(* Further properties of the include audit and of the dependency graph.    *)
(***************************************************************************)
\* C15: the finished audit has reported "F should include R" for no pair
\* (F, R) where an include path of one or more edges leads from F to R.
C15_ReachableIsNotReported ==
    pc = "finished" =>
        \A file \in DOMAIN mDependencies :
            \A ref \in IncludedFrom(mDependencies, file) :
                ~Reported("shouldInclude", file, ref)

\* C16: for a non-system file F and a file H it includes, the finished audit
\* has reported "F includes H for no reason" exactly when neither H nor any
\* file an include path leads to from H is a file F refers into.
C16_NoReasonIffClosureUnreferenced ==
    pc = "finished" =>
        \A file \in DOMAIN mDependencies :
            \A header \in mDependencies[file].includes :
                ~IsSystem(PathOfId(file)) =>
                    (Reported("noReason", file, header)
                        <=> IncludeClosure(mDependencies, {header}, Cardinality(FileIds))
                                \cap DOMAIN mDependencies[file].references = {})

\* file 1 includes 2, 2 includes 3, and 1 refers into 3 only: the include of
\* 2 is needed for what it brings in, and 2 itself does not need 3
C16_Witness ==
    /\ pc = "finished"
    /\ {1, 2} \subseteq DOMAIN mDependencies
    /\ 2 \in mDependencies[1].includes
    /\ 3 \in mDependencies[2].includes
    /\ DOMAIN mDependencies[1].references = {3}
    /\ ~Reported("noReason", 1, 2)
    /\ Reported("noReason", 2, 3)

(***************************************************************************)
(* Properties of load, remove and the load completions.                    *)
(***************************************************************************)
\* C17: a path that has no entry in the cache (none was ever made, or a
\* remove erased it) gets an entry by a `load` of that path and by nothing
\* else; in particular not by the completion of a load that was in flight
\* when the remove erased the entry.
C17_RemovedStaysOutUntilLoad ==
    [][\A P \in Files :
          (P \notin Cached /\ P \in DOMAIN mTranslationUnits')
             => reply' = Reply("load", P, "Loading", << >>)
      ]_vars

\* C18: the dependency map never maps a file id to a null node, that is,
\* neither assert of handleReference fails: whenever a cursor refers into
\* another file, the cursor's file and the referent's file have nodes.
C18_ReferenceFindsBothNodes ==
    \A fileId \in DOMAIN mDependencies : mDependencies[fileId] # NullDep

\* C19: at most one load job per path is pending.
C19_OneLoadJobPerPath ==
    \A P \in Files : Cardinality(LoadJobsFor(jobs, P)) <= 1

\* C20: `load P` is answered "File already loading" only while a load job for
\* P is pending.
C20_AlreadyLoadingMeansPending ==
    (reply.cmd = "load" /\ reply.result = "File already loading")
        => LoadJobsFor(jobs, reply.arg) # {}

(***************************************************************************)
(* Properties of a whole run, of addCursor and of the reference maps.      *)
(***************************************************************************)
\* C21: a run with DumpCheckIncludes that was aborted has posted no report of
\* the include audit, neither "includes ... for no reason" nor "should
\* include".
C21_NoAuditReportAfterAbort ==
    (mAborted /\ query.checkIncludes) =>
        \A i \in 1..Len(posted) : posted[i].kind \notin {"noReason", "shouldInclude"}

\* C22: addCursor terminates on every cursor of the AST, a cursor that is its
\* own referenced cursor and cursors on a cycle of referenced, canonical,
\* definition and parent edges included: no walk ends in a call of addCursor
\* that opens the same call again.
C22_AddCursorTerminates == pc # "overflow"

\* the places of the finish notification among the posted lines
Finishes == { i \in 1..Len(posted) : posted[i].kind = "finish" }

LookupErrors == {"Invalid argument count", "Invalid argument type", "Translation unit not found"}

\* the requests that must fail: an argument is missing, the line or the
\* column is 0, the path is not a file, or the cache holds no translation
\* unit other than null for the path
MustFail(req) ==
    \/ ~req.hasArgs
    \/ req.line = 0
    \/ req.column = 0
    \/ ~IsFile(req.file)
    \/ Value(mTranslationUnits, Resolve(req.file)) = NullTU

LookupAnswers(req, frontEnd, target) ==
    /\ reply = NoReply
    /\ reply'.cmd = "lookupline"
    /\ LookupLine(req, frontEnd, target)

\* C24: lookupline leaves the cache of translation units as it is whatever
\* it answers, and a request that lacks an argument, has line or column 0,
\* names no file, or names a path for which the cache holds no unit or the
\* null sentinel of a load, is answered with an error whatever the front end
\* would have found.
C24_LookupFailsEarlyAndKeepsCache ==
    [][\A req \in LookupRequests, frontEnd \in FrontEndAnswers, target \in Targets :
          LookupAnswers(req, frontEnd, target) =>
              /\ mTranslationUnits' = mTranslationUnits
              /\ disposed' = disposed
              /\ MustFail(req) => reply'.result \in LookupErrors /\ reply'.list = << >>
      ]_vars

\* a lookup of a path whose load is in flight was answered with an error
C24_Witness ==
    /\ reply.cmd = "lookupline"
    /\ reply.arg = PathA
    /\ reply.result = "Translation unit not found"
    /\ PathA \in DOMAIN mTranslationUnits
    /\ mTranslationUnits[PathA] = NullTU

\* C25: lookupline resolves a file argument that is not resolved: a request
\* with a line and a column that names, by an unresolved path, a file whose
\* resolved path has a translation unit in the cache is answered with what
\* the front end finds in that unit.
C25_UnresolvedNameFindsUnit ==
    [][\A req \in LookupRequests, frontEnd \in FrontEndAnswers, target \in Targets :
          ( /\ LookupAnswers(req, frontEnd, target)
            /\ ~IsResolved(req.file)
            /\ ~MustFail(req) )
          => reply'.result = frontEnd
      ]_vars

(***************************************************************************)
(* The reference maps of the dependency graph.                             *)
(***************************************************************************)
\* the entries of all reference maps: <<F, R, fromLoc, refLoc>>
Entries(deps) ==
    UNION { UNION { { <<f, r, l, deps[f].references[r][l]>> :
                        l \in DOMAIN deps[f].references[r] } :
                    r \in DOMAIN deps[f].references } :
            f \in DOMAIN deps }

\* the cursors whose referent is to be recorded: not an inclusion directive,
\* the referent is another cursor, not a namespace, and has a location in
\* another file
Recordable(cursor) ==
    /\ cursor.kind # "inclusion"
    /\ cursor.ref # SelfRef
    /\ cursor.ref.kind # "namespace"
    /\ ~IsNull(cursor.ref.loc)
    /\ cursor.ref.loc.file # cursor.loc.file

\* the visitor is called with cursor in a DumpCheckIncludes walk
AuditVisits(cursor) ==
    /\ pc = "walk"
    /\ query.checkIncludes
    /\ ~mAborted
    /\ ~IsNull(cursor.loc)
    /\ visited' = visited + 1
    /\ VisitCursor(cursor)

\* C26: no reference map of a file F has F as target; a cursor whose referent
\* is a namespace, has no location or is in the cursor's own file adds and
\* changes no entry; a cursor at fromLoc of F that refers into another file R
\* sets the entry (F, R, fromLoc) to the location of its referent and changes
\* no other entry, so every entry holds the referent of the cursor visited
\* last at its fromLoc that refers into R.
C26_ReferenceMapHoldsLastReferent ==
    [][\A cursor \in CursorsFor(query) :
          AuditVisits(cursor) =>
              /\ \A e \in Entries(mDependencies') :
                    e[1] # e[2] /\ e[3].file = e[1] /\ e[4].file = e[2]
              /\ IF Recordable(cursor) /\ pc' # "crashed"
                 THEN Entries(mDependencies') =
                        { e \in Entries(mDependencies) :
                            <<e[1], e[2], e[3]>> # <<cursor.loc.file, cursor.ref.loc.file, cursor.loc>> }
                        \cup {<<cursor.loc.file, cursor.ref.loc.file, cursor.loc, cursor.ref.loc>>}
                 ELSE Entries(mDependencies') = Entries(mDependencies)
      ]_vars

\* a.cpp includes a.h, cursors were visited at line 1 of a.cpp, and the
\* entry for that place holds a referent on line 2 of a.h
C26_Witness ==
    /\ query.checkIncludes
    /\ visited = MaxCursors
    /\ Entries(mDependencies) = {<<1, 2, Loc(1, 1), Loc(2, 2)>>}

=============================================================================
